---- MODULE Spec2Model ----
(***************************************************************************)
(* A model of wsvreader.py: the whitespace-separated-values reader.        *)
(*                                                                         *)
(* Strings are sequences of one-character strings, so that strip(), the    *)
(* regular expression of split_line, unquote() and 'extra%d' % i are       *)
(* computed character by character.  Python indexes from 0 and TLA+ from   *)
(* 1: a Python index p is the index p + 1 here.                            *)
(***************************************************************************)
EXTENDS Integers, Sequences, FiniteSets, TLC

(***************************************************************************)
(* Bounds of the model.                                                    *)
(***************************************************************************)
\* longest raw line of the tokenizer specification
MaxLineLen == 6
\* most lines in a source of the reader specification
MaxLines == 3

(***************************************************************************)
(* Characters.                                                             *)
(***************************************************************************)
Quote == "\""
Hash == "#"
\* the characters of the tokenizer specification's raw lines
Alphabet == {"a", Quote, Hash, " ", "\t", "\r"}
\* the characters that the regular expression's \s matches and str.strip()
\* removes (the same set): U+0009-000D, U+001C-001F, U+0020, U+0085, U+00A0,
\* U+1680, U+2000-200A, U+2028, U+2029, U+202F, U+205F, U+3000.  A character
\* that has no escape in a TLA+ string is written as its Python escape.
Whitespace ==
    {"\t", "\n", "\\x0b", "\f", "\r", "\\x1c", "\\x1d", "\\x1e", "\\x1f", " ",
     "\\x85", "\\xa0", "\\u1680", "\\u2000", "\\u2001", "\\u2002", "\\u2003",
     "\\u2004", "\\u2005", "\\u2006", "\\u2007", "\\u2008", "\\u2009",
     "\\u200a", "\\u2028", "\\u2029", "\\u202f", "\\u205f", "\\u3000"}

(***************************************************************************)
(* str.strip(): drop leading and trailing whitespace.                      *)
(***************************************************************************)
RECURSIVE lstrip(_)
lstrip(s) ==
    IF s # <<>> /\ Head(s) \in Whitespace THEN lstrip(Tail(s)) ELSE s

RECURSIVE rstrip(_)
rstrip(s) ==
    IF s # <<>> /\ s[Len(s)] \in Whitespace
    THEN rstrip(SubSeq(s, 1, Len(s) - 1))
    ELSE s

strip(s) == rstrip(lstrip(s))

(***************************************************************************)
(* str.replace('""', '"'): left to right, non-overlapping.                 *)
(***************************************************************************)
RECURSIVE replace_qq(_)
replace_qq(s) ==
    IF Len(s) >= 2 /\ s[1] = Quote /\ s[2] = Quote
    THEN <<Quote>> \o replace_qq(SubSeq(s, 3, Len(s)))
    ELSE IF s = <<>> THEN <<>>
    ELSE <<Head(s)>> \o replace_qq(Tail(s))

(***************************************************************************)
(* unquote(column).  The result is [exc, value]; exc is "AssertionError"   *)
(* when the column starts with a quote and does not end with one.          *)
(***************************************************************************)
\* variant of unquote that leaves doubled quotes as they are
unquote_keep_doubled(column) ==
    IF column[1] = Quote
    THEN IF column[Len(column)] # Quote
         THEN [exc |-> "AssertionError", value |-> <<>>]
         ELSE [exc |-> "None",
               value |-> SubSeq(column, 2, Len(column) - 1)]
    ELSE [exc |-> "None", value |-> column]

\* unquote as the code has it
unquote(column) ==
    IF column[1] = Quote
    THEN IF column[Len(column)] # Quote
         THEN [exc |-> "AssertionError", value |-> <<>>]
         ELSE [exc |-> "None",
               value |-> replace_qq(SubSeq(column, 2, Len(column) - 1))]
    ELSE [exc |-> "None", value |-> column]

(***************************************************************************)
(* findre = \s([^"\s]*|"([^"]|"")*")\s as a backtracking matcher.          *)
(*                                                                         *)
(* BareStar and QuotedStar list, in the order the engine tries them, the   *)
(* indices at which the starred sub-pattern may stop when it starts at i:  *)
(* one more iteration first (greedy), the first alternative before the     *)
(* second, stopping here last.                                             *)
(***************************************************************************)
RECURSIVE BareStar(_, _)
BareStar(line, i) ==
    (IF i <= Len(line) /\ line[i] \notin (Whitespace \cup {Quote})
     THEN BareStar(line, i + 1) ELSE <<>>)
    \o <<i>>

RECURSIVE QuotedStar(_, _)
QuotedStar(line, i) ==
    (IF i <= Len(line) /\ line[i] # Quote
     THEN QuotedStar(line, i + 1) ELSE <<>>)
    \o
    (IF i + 1 <= Len(line) /\ line[i] = Quote /\ line[i + 1] = Quote
     THEN QuotedStar(line, i + 2) ELSE <<>>)
    \o <<i>>

IsSpaceAt(line, i) == i <= Len(line) /\ line[i] \in Whitespace

\* the stops after which the rest of the pattern matches
BareEnds(line, s) ==
    SelectSeq(BareStar(line, s + 1), LAMBDA e : IsSpaceAt(line, e))

QuotedEnds(line, s) ==
    IF s + 1 <= Len(line) /\ line[s + 1] = Quote
    THEN SelectSeq(QuotedStar(line, s + 2),
                   LAMBDA e : e <= Len(line) /\ line[e] = Quote
                              /\ IsSpaceAt(line, e + 1))
    ELSE <<>>

NoMatch == [found |-> FALSE, value |-> <<>>, end |-> 0]

\* the match that starts at index s, if there is one: group 1 and the index
\* of the last character matched (Python's match.end())
MatchAt(line, s) ==
    IF ~IsSpaceAt(line, s) THEN NoMatch
    ELSE IF BareEnds(line, s) # <<>>
    THEN LET e == Head(BareEnds(line, s))
         IN  [found |-> TRUE, value |-> SubSeq(line, s + 1, e - 1), end |-> e]
    ELSE IF QuotedEnds(line, s) # <<>>
    THEN LET e == Head(QuotedEnds(line, s))
         IN  [found |-> TRUE, value |-> SubSeq(line, s + 1, e), end |-> e + 1]
    ELSE NoMatch

\* findre.search(line, pos=pos): the leftmost match that starts at pos or later
RECURSIVE search(_, _)
search(line, pos) ==
    IF pos > Len(line) THEN NoMatch
    ELSE IF MatchAt(line, pos).found THEN MatchAt(line, pos)
    ELSE search(line, pos + 1)

\* the sentinels split_line adds
pad(line) == <<" ">> \o line \o <<" ">>

(***************************************************************************)
(* The loop of split_line, from index pos with the columns found so far.   *)
(* The result is [exc, columns].                                           *)
(***************************************************************************)
RECURSIVE split_loop(_, _, _)
split_loop(line, pos, columns) ==
    LET match == search(line, pos)
    IN  IF ~match.found THEN [exc |-> "None", columns |-> columns]
        ELSE IF match.value = <<>>
        THEN split_loop(line, match.end, columns)
        ELSE IF unquote(match.value).exc # "None"
        THEN [exc |-> unquote(match.value).exc, columns |-> <<>>]
        ELSE split_loop(line, match.end,
                        Append(columns, unquote(match.value).value))

split_line(line) == split_loop(pad(line), 1, <<>>)

(***************************************************************************)
(* get_line(): the next line of the iterator that is neither blank nor a   *)
(* comment.  lines is the source and filepos the number of lines already   *)
(* consumed.  The result is [exc, line, filepos]; exc is "StopIteration"   *)
(* when the iterator is exhausted.                                         *)
(***************************************************************************)
\* variant of get_line without "if line[0] == '#': continue"
RECURSIVE get_line_no_comments(_, _)
get_line_no_comments(lines, filepos) ==
    IF filepos >= Len(lines)
    THEN [exc |-> "StopIteration", line |-> <<>>, filepos |-> Len(lines)]
    ELSE LET line == strip(lines[filepos + 1])
         IN  IF line = <<>> THEN get_line_no_comments(lines, filepos + 1)
             ELSE [exc |-> "None", line |-> line, filepos |-> filepos + 1]

\* get_line as the code has it
RECURSIVE get_line(_, _)
get_line(lines, filepos) ==
    IF filepos >= Len(lines)
    THEN [exc |-> "StopIteration", line |-> <<>>, filepos |-> Len(lines)]
    ELSE LET line == strip(lines[filepos + 1])
         IN  IF line = <<>> THEN get_line(lines, filepos + 1)
             ELSE IF line[1] = Hash THEN get_line(lines, filepos + 1)
             ELSE [exc |-> "None", line |-> line, filepos |-> filepos + 1]

(***************************************************************************)
(* State.                                                                  *)
(*   tokenizer specification: raw, line, pos, columns, pc                  *)
(*   reader specification: the other variables                             *)
(***************************************************************************)
VARIABLES
    raw,          \* the line as the source yields it
    line,         \* split_line's local: the padded line
    pos,          \* split_line's local: where the next search starts
    columns,      \* split_line's local: the values found so far
    pc,           \* "get_line", "split", "done", "skipped", "AssertionError"
    file,         \* the source: its lines, each a sequence of characters
    seekable,     \* whether file.seek(0) works (StringIO) or raises IOError
    filepos,      \* the source's read position: the number of lines consumed
    need_seek,    \* self.need_seek
    attrs,        \* which of self.fileiter, self.columnnames are set
    columnnames,  \* self.columnnames
    result,       \* what the last call did: [op, exc, line, columns, record]
    pass,         \* the caller's view of the current pass
    data,         \* the caller's list of the records of the current pass
    data1,        \* <<data>> of the first pass that was completed, or <<>>
    rerun         \* the current pass was started after a completed pass

tvars == <<raw, line, pos, columns, pc>>
rvars == <<file, seekable, filepos, need_seek, attrs, columnnames, result,
           pass, data, data1, rerun>>
vars == <<raw, line, pos, columns, pc, file, seekable, filepos, need_seek,
          attrs, columnnames, result, pass, data, data1, rerun>>

NoCall ==
    [op |-> "none", exc |-> "None", line |-> <<>>, columns |-> <<>>,
     record |-> <<>>]

RawLines == UNION {[1..n -> Alphabet] : n \in 0..MaxLineLen}

(***************************************************************************)
(* The tokenizer specification: one raw line goes through get_line and     *)
(* then through split_line, one iteration of its loop at a time.           *)
(***************************************************************************)
TInit ==
    /\ raw \in RawLines
    /\ line = <<>>
    /\ pos = 0
    /\ columns = <<>>
    /\ pc = "get_line"
    /\ file = <<>>
    /\ seekable = TRUE
    /\ filepos = 0
    /\ need_seek = FALSE
    /\ attrs = {}
    /\ columnnames = <<>>
    /\ result = NoCall
    /\ pass = "unstarted"
    /\ data = <<>>
    /\ data1 = <<>>
    /\ rerun = FALSE

\* get_line() on a source that holds the one line, then split_line's
\* "line = ' ' + line + ' '; columns = []; pos = 0"
TGetLine ==
    /\ pc = "get_line"
    /\ LET got == get_line(<<raw>>, 0)
       IN  IF got.exc = "StopIteration"
           THEN /\ pc' = "skipped"
                /\ UNCHANGED <<line, pos, columns>>
           ELSE /\ pc' = "split"
                /\ line' = pad(got.line)
                /\ pos' = 1
                /\ columns' = <<>>
    /\ UNCHANGED <<raw, rvars>>

\* one iteration of "while True" in which the search finds a match
TSplitMatch ==
    /\ pc = "split"
    /\ LET match == search(line, pos)
       IN  /\ match.found
           /\ IF match.value = <<>>
              THEN /\ pos' = match.end
                   /\ UNCHANGED <<columns, pc>>
              ELSE IF unquote(match.value).exc # "None"
              THEN /\ pc' = unquote(match.value).exc
                   /\ UNCHANGED <<columns, pos>>
              ELSE /\ columns' = Append(columns, unquote(match.value).value)
                   /\ pos' = match.end
                   /\ UNCHANGED pc
    /\ UNCHANGED <<raw, line, rvars>>

\* "if not match: break" and "return columns"
TSplitBreak ==
    /\ pc = "split"
    /\ ~search(line, pos).found
    /\ pc' = "done"
    /\ UNCHANGED <<raw, line, pos, columns, rvars>>

TNext == TGetLine \/ TSplitMatch \/ TSplitBreak

SpecSplit == TInit /\ [][TNext]_vars

(***************************************************************************)
(* 'extra%d' % (i,)                                                        *)
(***************************************************************************)
DigitChars == <<"0", "1", "2", "3", "4", "5", "6", "7", "8", "9">>

RECURSIVE decimal(_)
decimal(n) ==
    IF n < 10 THEN <<DigitChars[n + 1]>>
    ELSE decimal(n \div 10) \o <<DigitChars[(n % 10) + 1]>>

extra_columnname(i) == <<"e", "x", "t", "r", "a">> \o decimal(i)

InSeq(x, seq) == \E j \in 1..Len(seq) : seq[j] = x

(***************************************************************************)
(* "Ensure that the header is long enough": the while loop of __next__,    *)
(* for a row of n columns, from candidate number i.                        *)
(***************************************************************************)
\* variant of the loop without "if extra_columnname not in self.columnnames"
RECURSIVE extend_unchecked(_, _, _)
extend_unchecked(names, n, i) ==
    IF n > Len(names)
    THEN extend_unchecked(Append(names, extra_columnname(i)), n, i + 1)
    ELSE names

\* variant of the loop with insert(0, ...) for append(...)
RECURSIVE extend_prepend(_, _, _)
extend_prepend(names, n, i) ==
    IF n > Len(names)
    THEN IF ~InSeq(extra_columnname(i), names)
         THEN extend_prepend(<<extra_columnname(i)>> \o names, n, i + 1)
         ELSE extend_prepend(names, n, i + 1)
    ELSE names

\* the loop as the code has it
RECURSIVE extend_columnnames(_, _, _)
extend_columnnames(names, n, i) ==
    IF n > Len(names)
    THEN IF ~InSeq(extra_columnname(i), names)
         THEN extend_columnnames(Append(names, extra_columnname(i)), n, i + 1)
         ELSE extend_columnnames(names, n, i + 1)
    ELSE names

(***************************************************************************)
(* dict(zip(names, values)): a dict is the sequence of its <<key, value>> *)
(* items in insertion order; setting a key that is present replaces its    *)
(* value in place.                                                         *)
(***************************************************************************)
dict_set(d, k, v) ==
    IF \E j \in 1..Len(d) : d[j][1] = k
    THEN [j \in 1..Len(d) |-> IF d[j][1] = k THEN <<k, v>> ELSE d[j]]
    ELSE Append(d, <<k, v>>)

Min(a, b) == IF a <= b THEN a ELSE b

RECURSIVE dict_items(_, _, _, _)
dict_items(d, names, values, j) ==
    IF j > Min(Len(names), Len(values)) THEN d
    ELSE dict_items(dict_set(d, names[j], values[j]), names, values, j + 1)

dict_zip(names, values) == dict_items(<<>>, names, values, 1)

\* len(x) != len(set(x))
HasDuplicates(seq) ==
    \E j, k \in 1..Len(seq) : j < k /\ seq[j] = seq[k]

(***************************************************************************)
(* The sources of the reader specification: up to MaxLines lines, each     *)
(* one of the lines below as iter(file) yields it, newline included.       *)
(***************************************************************************)
Extra1 == extra_columnname(1)
Nl == <<"\n">>
Sp == <<" ">>

LineBlank == <<" ", "\t">> \o Nl
LineComment == <<" ", "#", "a">> \o Nl
LineHeader == <<"a">> \o Sp \o Extra1 \o Nl
LineOne == <<"\t", "b", "\r">> \o Nl
LineWide == <<"a", "\f", "b", "\t", "#", "a", "\\xa0", "b">> \o Nl
LineHash ==
    <<Quote, "#", Quote, Quote, Quote, " ", Quote, Quote, " ", "b", "#">> \o Nl

LinePool == {LineBlank, LineComment, LineHeader, LineOne, LineWide, LineHash}

Files == UNION {[1..n -> LinePool] : n \in 0..MaxLines}

Call(op, exc, cols, record) ==
    [op |-> op, exc |-> exc, line |-> <<>>, columns |-> cols,
     record |-> record]

(***************************************************************************)
(* The reader specification: a caller that calls iter(reader),             *)
(* next(reader), reader.read_header() and reader.get_line() in any order   *)
(* on one reader instance.  A direct call of read_header or get_line       *)
(* inside the caller's pass takes a line away from it: the pass is         *)
(* "interrupted" and is no complete pass any more.                         *)
(***************************************************************************)
RInit ==
    /\ file \in Files
    /\ seekable \in BOOLEAN
    /\ filepos = 0
    /\ need_seek = FALSE
    /\ attrs = {}
    /\ columnnames = <<>>
    /\ result = NoCall
    /\ pass = "unstarted"
    /\ data = <<>>
    /\ data1 = <<>>
    /\ rerun = FALSE
    /\ raw = <<>>
    /\ line = <<>>
    /\ pos = 0
    /\ columns = <<>>
    /\ pc = "idle"

\* read_header(), reading from line number start.  The result is
\* [exc, filepos, set, columnnames]: set tells whether self.columnnames was
\* assigned.
read_header(lines, start) ==
    LET got == get_line(lines, start)
        hdr == split_line(got.line)
    IN  IF got.exc # "None"
        THEN [exc |-> got.exc, filepos |-> got.filepos, set |-> FALSE,
              columnnames |-> <<>>]
        ELSE IF hdr.exc # "None"
        THEN [exc |-> hdr.exc, filepos |-> got.filepos, set |-> FALSE,
              columnnames |-> <<>>]
        ELSE [exc |-> IF HasDuplicates(hdr.columns)
                      THEN "ValueError" ELSE "None",
              filepos |-> got.filepos, set |-> TRUE,
              columnnames |-> hdr.columns]

\* variant of seek_fails that seeks on the first pass too
seek_always(need, can_seek) == ~can_seek

\* "if self.need_seek: self.file.seek(0)": whether the call raises IOError
seek_fails(need, can_seek) == need /\ ~can_seek

\* variant of after_seek that rewinds to the second line
after_seek_off_by_one(need, at) == IF need THEN 1 ELSE at

\* the read position after "if self.need_seek: self.file.seek(0)"
after_seek(need, at) == IF need THEN 0 ELSE at

\* iter(reader)
Iter ==
    IF seek_fails(need_seek, seekable)
    THEN /\ result' = Call("__iter__", "IOError", <<>>, <<>>)
         /\ pass' = "IOError"
         /\ UNCHANGED <<file, seekable, filepos, need_seek, attrs,
                        columnnames, data, data1, rerun, tvars>>
    ELSE LET hdr == read_header(file, after_seek(need_seek, filepos))
         IN  /\ need_seek' = TRUE
             /\ filepos' = hdr.filepos
             /\ attrs' = attrs \cup {"fileiter"}
                               \cup (IF hdr.set THEN {"columnnames"} ELSE {})
             /\ columnnames' = IF hdr.set THEN hdr.columnnames ELSE columnnames
             /\ result' = Call("__iter__", hdr.exc, <<>>, <<>>)
             /\ pass' = IF hdr.exc = "None" THEN "active" ELSE hdr.exc
             /\ data' = IF hdr.exc = "None" THEN <<>> ELSE data
             /\ rerun' = IF hdr.exc = "None" THEN data1 # <<>> ELSE rerun
             /\ UNCHANGED <<file, seekable, data1, tvars>>

\* next(reader)
NextRecord ==
    IF "fileiter" \notin attrs
    THEN /\ result' = Call("__next__", "AttributeError", <<>>, <<>>)
         /\ UNCHANGED <<file, seekable, filepos, need_seek, attrs,
                        columnnames, pass, data, data1, rerun, tvars>>
    ELSE LET got == get_line(file, filepos)
             row == split_line(got.line)
             names == extend_columnnames(columnnames, Len(row.columns), 0)
             record == dict_zip(names, row.columns)
         IN  /\ filepos' = got.filepos
             /\ IF got.exc # "None"
                THEN /\ result' = Call("__next__", got.exc, <<>>, <<>>)
                     /\ pass' = IF pass = "active" THEN "complete" ELSE pass
                     /\ data1' = IF pass = "active" /\ data1 = <<>>
                                 THEN <<data>> ELSE data1
                     /\ UNCHANGED <<columnnames, data>>
                ELSE IF row.exc # "None"
                THEN /\ result' = Call("__next__", row.exc, <<>>, <<>>)
                     /\ pass' = IF pass = "active" THEN row.exc ELSE pass
                     /\ UNCHANGED <<columnnames, data, data1>>
                ELSE IF "columnnames" \notin attrs
                THEN /\ result' = Call("__next__", "AttributeError",
                                       row.columns, <<>>)
                     /\ pass' = IF pass = "active"
                                THEN "AttributeError" ELSE pass
                     /\ UNCHANGED <<columnnames, data, data1>>
                ELSE /\ columnnames' = names
                     /\ result' = Call("__next__", "None", row.columns, record)
                     /\ data' = IF pass = "active"
                                THEN Append(data, record) ELSE data
                     /\ UNCHANGED <<pass, data1>>
             /\ UNCHANGED <<file, seekable, need_seek, attrs, rerun, tvars>>

\* reader.read_header(), called by the caller
ReadHeader ==
    IF "fileiter" \notin attrs
    THEN /\ result' = Call("read_header", "AttributeError", <<>>, <<>>)
         /\ UNCHANGED <<file, seekable, filepos, need_seek, attrs,
                        columnnames, pass, data, data1, rerun, tvars>>
    ELSE LET hdr == read_header(file, filepos)
         IN  /\ filepos' = hdr.filepos
             /\ attrs' = attrs \cup (IF hdr.set THEN {"columnnames"} ELSE {})
             /\ columnnames' = IF hdr.set THEN hdr.columnnames ELSE columnnames
             /\ result' = Call("read_header", hdr.exc, <<>>, <<>>)
             /\ pass' = IF pass = "active" THEN "interrupted" ELSE pass
             /\ UNCHANGED <<file, seekable, need_seek, data, data1, rerun,
                            tvars>>

\* reader.get_line(), called by the caller
GetLine ==
    IF "fileiter" \notin attrs
    THEN /\ result' = Call("get_line", "AttributeError", <<>>, <<>>)
         /\ UNCHANGED <<file, seekable, filepos, need_seek, attrs,
                        columnnames, pass, data, data1, rerun, tvars>>
    ELSE LET got == get_line(file, filepos)
         IN  /\ filepos' = got.filepos
             /\ result' = [Call("get_line", got.exc, <<>>, <<>>)
                              EXCEPT !.line = got.line]
             /\ pass' = IF pass = "active" THEN "interrupted" ELSE pass
             /\ UNCHANGED <<file, seekable, need_seek, attrs, columnnames,
                            data, data1, rerun, tvars>>

Next == Iter \/ NextRecord \/ ReadHeader \/ GetLine

Spec == RInit /\ [][Next]_vars

(***************************************************************************)
(* The input format as the specification words it, for the properties      *)
(* below: a character scanner over one trimmed line with the states        *)
(* "start" (between tokens), "bare", "quoted" and "closed" (just after a   *)
(* quote inside a quoted token).  The result is [kind, values]; kind is    *)
(* "ok", "unterminated" (the line ends inside a quoted token) or           *)
(* "malformed" (a quote inside a bare token, or a closing quote that is    *)
(* not followed by whitespace).                                            *)
(***************************************************************************)
RECURSIVE Scan(_, _, _, _, _)
Scan(s, i, st, cur, out) ==
    IF i > Len(s)
    THEN CASE st = "start" -> [kind |-> "ok", values |-> out]
           [] st = "bare" -> [kind |-> "ok", values |-> Append(out, cur)]
           [] st = "closed" -> [kind |-> "ok", values |-> Append(out, cur)]
           [] OTHER -> [kind |-> "unterminated", values |-> out]
    ELSE LET c == s[i]
         IN  CASE st = "start" /\ c \in Whitespace ->
                      Scan(s, i + 1, "start", <<>>, out)
               [] st = "start" /\ c = Quote ->
                      Scan(s, i + 1, "quoted", <<>>, out)
               [] st = "start" /\ c \notin Whitespace \cup {Quote} ->
                      Scan(s, i + 1, "bare", <<c>>, out)
               [] st = "bare" /\ c \in Whitespace ->
                      Scan(s, i + 1, "start", <<>>, Append(out, cur))
               [] st = "bare" /\ c = Quote ->
                      [kind |-> "malformed", values |-> out]
               [] st = "bare" /\ c \notin Whitespace \cup {Quote} ->
                      Scan(s, i + 1, "bare", Append(cur, c), out)
               [] st = "quoted" /\ c = Quote ->
                      Scan(s, i + 1, "closed", cur, out)
               [] st = "quoted" /\ c # Quote ->
                      Scan(s, i + 1, "quoted", Append(cur, c), out)
               [] st = "closed" /\ c = Quote ->
                      Scan(s, i + 1, "quoted", Append(cur, Quote), out)
               [] st = "closed" /\ c \in Whitespace ->
                      Scan(s, i + 1, "start", <<>>, Append(out, cur))
               [] OTHER -> [kind |-> "malformed", values |-> out]

Tokens(s) == Scan(s, 1, "start", <<>>, <<>>)

\* the line with its leading and trailing whitespace removed
RECURSIVE Trimmed(_)
Trimmed(s) ==
    IF s = <<>> THEN s
    ELSE IF s[1] \in Whitespace THEN Trimmed(Tail(s))
    ELSE IF s[Len(s)] \in Whitespace THEN Trimmed(SubSeq(s, 1, Len(s) - 1))
    ELSE s

\* a significant line: not empty after trimming, and its first character
\* that is not whitespace is not '#'
Significant(s) == Trimmed(s) # <<>> /\ Trimmed(s)[1] # Hash

SigLines(lines) == SelectSeq(lines, Significant)

IsPrefix(p, q) == Len(p) <= Len(q) /\ SubSeq(q, 1, Len(p)) = p

\* the smallest n such that 'extra<n>' is not among names
SmallestUnused(names) ==
    CHOOSE n \in 0..Len(names) :
        /\ ~InSeq(extra_columnname(n), names)
        /\ \A m \in 0..(n - 1) : InSeq(extra_columnname(m), names)

Returned == result.op = "__next__" /\ result.exc = "None"

(***************************************************************************)
(* C1: a significant line with a token that starts with a double quote and *)
(* has no closing quote makes split_line fail: it never returns columns    *)
(* for that line.                                                          *)
(***************************************************************************)
C1_UnterminatedQuoteIsFatal ==
    (pc = "done") => (Tokens(Trimmed(raw)).kind # "unterminated")

(***************************************************************************)
(* C8: for a line of well-formed tokens separated by whitespace,           *)
(* split_line returns one value per token, in order: a bare token as it    *)
(* is, a quoted token without its quotes and with each doubled quote       *)
(* as one quote; "" gives an empty value, adjacent whitespace gives none.  *)
(***************************************************************************)
C8_SplitLineValues ==
    (pc = "done" /\ Tokens(Trimmed(raw)).kind = "ok")
        => (columns = Tokens(Trimmed(raw)).values)

C8_Witness ==
    /\ pc = "done"
    /\ Tokens(Trimmed(raw)).kind = "ok"
    /\ Len(columns) = 2
    /\ columns[1] = <<Quote>>

(***************************************************************************)
(* C2: when __next__ reads a row with more tokens than there are column    *)
(* names, it appends one synthetic name per missing column, each 'extra'   *)
(* followed by the smallest number whose name is not yet in the list, and  *)
(* leaves the names that were there in place; otherwise the list stays.    *)
(***************************************************************************)
C2_SyntheticNames ==
    [][(NextRecord /\ result'.op = "__next__" /\ result'.exc = "None") =>
        LET old == columnnames
            new == columnnames'
            n == Len(result'.columns)
        IN  IF n > Len(old)
            THEN /\ Len(new) = n
                 /\ IsPrefix(old, new)
                 /\ \A j \in (Len(old) + 1)..n :
                        new[j] = extra_columnname(
                                     SmallestUnused(SubSeq(new, 1, j - 1)))
            ELSE new = old]_vars

C2_Witness ==
    /\ Returned
    /\ file[1] = LineHeader
    /\ columnnames = <<<<"a">>, Extra1, extra_columnname(0), extra_columnname(2)>>

(***************************************************************************)
(* C3: a record returned for a row of N tokens has exactly N keys, the     *)
(* first N column names in order, each with the token at its position;     *)
(* so it has no more keys than there are column names.                     *)
(***************************************************************************)
C3_RecordKeys ==
    Returned =>
        /\ Len(result.record) = Len(result.columns)
        /\ Len(result.record) <= Len(columnnames)
        /\ \A j \in 1..Len(result.record) :
               result.record[j] = <<columnnames[j], result.columns[j]>>

(***************************************************************************)
(* C4: after a pass start that failed for a duplicate header name, no      *)
(* record is returned until a pass start has succeeded, and the column     *)
(* names behind any record are pairwise distinct.                          *)
(***************************************************************************)
C4_NoRecordAfterDuplicateHeader ==
    Returned => (pass # "ValueError" /\ ~HasDuplicates(columnnames))

(***************************************************************************)
(* C5: a complete pass that was started after a completed pass yields the  *)
(* same records, in the same order, as the first completed pass.           *)
(***************************************************************************)
C5_Reiteration ==
    (pass = "complete" /\ rerun) => (data = data1[1])

C5_Witness ==
    /\ pass = "complete"
    /\ rerun
    /\ Len(data) = 2
    /\ Len(data[1]) > Len(data[2])
    /\ InSeq(extra_columnname(0), columnnames)

(***************************************************************************)
(* C6: a pass start raises IOError exactly when it is not the reader's     *)
(* first and the source cannot rewind; it then leaves the read position,   *)
(* the column names and the caller's records alone.  A pass completed on   *)
(* a source that cannot rewind is the first one and has all its records.   *)
(***************************************************************************)
C6_RewindOnlyAfterFirstPass ==
    /\ [][Iter =>
            /\ (result'.exc = "IOError") <=> (need_seek /\ ~seekable)
            /\ (result'.exc = "IOError") =>
                   /\ pass' = "IOError"
                   /\ UNCHANGED <<filepos, columnnames, data, data1>>]_vars
    /\ []((pass = "complete" /\ ~seekable) =>
            /\ ~rerun
            /\ Len(data) = Len(SigLines(file)) - 1)

C6_Witness ==
    /\ ~seekable
    /\ result = Call("__iter__", "IOError", <<>>, <<>>)
    /\ data1 # <<>>
    /\ Len(data1[1]) = 2

(***************************************************************************)
(* C7: a complete pass returns one record per significant line after the   *)
(* header, in source order; blank lines and lines whose first character    *)
(* after the leading whitespace is '#' add nothing, and a '#' elsewhere    *)
(* in a line does not make it a comment.                                   *)
(***************************************************************************)
C7_OneRecordPerSignificantLine ==
    (pass = "complete") =>
        LET sig == SigLines(file)
        IN  /\ Len(data) = Len(sig) - 1
            /\ \A k \in 1..Len(data) :
                   [j \in 1..Len(data[k]) |-> data[k][j][2]]
                       = Tokens(Trimmed(sig[k + 1])).values

C7_Witness ==
    /\ pass = "complete"
    /\ file = <<LineComment, LineOne, LineHash>>
    /\ data = << << <<<<"b">>, <<Hash, Quote>>>>,
                    <<extra_columnname(0), <<>>>>,
                    <<extra_columnname(1), <<"b", Hash>>>> >> >>

(***************************************************************************)
(* C9: each __next__ leaves the column names a prefix of the new column    *)
(* names; each pass start that reads a header replaces the list by the     *)
(* tokens of the header, the first significant line of the source.         *)
(***************************************************************************)
C9_ColumnNamesGrowAndReset ==
    /\ [][NextRecord => IsPrefix(columnnames, columnnames')]_vars
    /\ [][(Iter /\ result'.exc \in {"None", "ValueError"}) =>
            columnnames' = Tokens(Trimmed(SigLines(file)[1])).values]_vars

C9_Witness ==
    /\ result = Call("__iter__", "None", <<>>, <<>>)
    /\ rerun
    /\ Len(data1[1]) = 2
    /\ Len(data1[1][1]) > Len(data1[1][2])
    /\ Len(data1[1][2]) > Len(columnnames)

(***************************************************************************)
(* C10: the end of the input is never an error: a pass start on a source   *)
(* without a significant line returns normally, and the pass then          *)
(* completes with no record.                                               *)
(***************************************************************************)
C10_EndOfInputIsNotAnError ==
    (result.op = "__iter__" /\ SigLines(file) = <<>>
         /\ result.exc # "IOError")
        => (result.exc = "None" /\ pass = "active" /\ data = <<>>)

====
